---- MODULE Spec2Model ----
(***************************************************************************)
(* Gridworld (src/Grid.py): a grid of rewards with a terminal cell,        *)
(* negative-reward cells and barriers, an agent that is moved by step      *)
(* under an epsilon-noise policy, and reset.                               *)
(*                                                                         *)
(* Conventions of the model                                                *)
(*   - constructor arguments are [x,y] tuples <<x, y>>, entries of         *)
(*     neg_reward are <<x, y, reward>>; the object's coordinates are       *)
(*     [y,x] tuples <<y, x>>, as in the code;                              *)
(*   - a float is the pair <<numerator, denominator>> of its exact value   *)
(*     (10.0 is <<10, 1>>, -0.5 is <<-1, 2>>); numpy's NaN is <<0, 0>>;    *)
(*   - world is the numpy array, a function from the cells <<y, x>> with   *)
(*     0 <= y < y_dim and 0 <= x < x_dim to floats; an index i of an axis  *)
(*     of length n addresses element i for 0 <= i < n, element i + n for   *)
(*     -n <= i < 0, and raises IndexError otherwise.                       *)
(***************************************************************************)
EXTENDS Integers, Sequences, FiniteSets, TLC

VARIABLES
    args,           \* the arguments the constructor was called with
    constructed,    \* TRUE iff __init__ returned an object (raised nothing)
    x_dim,          \* self.x_dim
    y_dim,          \* self.y_dim
    epsilon,        \* self.epsilon
    agent,          \* self.agent, <<y, x>>
    initial_agent,  \* self.initial_agent, <<y, x>>
    terminal,       \* self.terminal, <<y, x>>
    action,         \* self.action, the list of action names
    world,          \* self.world
    aliased,        \* TRUE iff self.agent and self.initial_agent are one list object
    last            \* the last call: its name, arguments, draws and result

vars == <<args, constructed, x_dim, y_dim, epsilon, agent, initial_agent,
          terminal, action, world, aliased, last>>

(***************************************************************************)
(* Bounds of the model.                                                    *)
(***************************************************************************)
\* the small grids have 1..MaxDim columns and 1..MaxDim rows
MaxDim == 2
\* a barrier list given to the constructor has at most MaxBarrier entries
MaxBarrier == 1
\* a neg_reward list given to the constructor has at most MaxNeg entries
MaxNeg == 2

(***************************************************************************)
(* Values.                                                                 *)
(***************************************************************************)
None == "None"
NaN == <<0, 0>>

Float(n) == <<n, 1>>

\* np.zeros fills the array with 0.0
ZeroReward == Float(0)
\* world[terminal] = 10
TerminalReward == Float(10)
\* reward = -0.1, the value step assigns before the validity check
DefaultReward == <<-1, 10>>
\* reward = -0.5, the value step assigns when the move is not valid
InvalidMoveReward == <<-1, 2>>

\* self.action
ActionNames == <<"up", "down", "left", "right">>

(***************************************************************************)
(* numpy indexing.                                                         *)
(***************************************************************************)
\* world[.., i, ..] on an axis of length n raises IndexError unless -n <= i < n
IndexOK(i, n) == -n <= i /\ i < n
\* the element an index that is in range addresses: negative indices count
\* from the end
PyIndex(i, n) == IF i < 0 THEN i + n ELSE i
\* the cell world[y, x] addresses in a world of yd rows and xd columns
Cell(yd, xd, y, x) == <<PyIndex(y, yd), PyIndex(x, xd)>>
CellOK(yd, xd, y, x) == IndexOK(y, yd) /\ IndexOK(x, xd)

(***************************************************************************)
(* __init__: the grid is built in layers, zeros, then the terminal, then   *)
(* the negative rewards in list order, then the barriers in list order.    *)
(***************************************************************************)
Zeros(yd, xd) == [c \in (0 .. yd - 1) \X (0 .. xd - 1) |-> ZeroReward]

\* world[self.terminal[0], self.terminal[1]] = 10, self.terminal being [y,x]
PutTerminal(w, yd, xd, t) ==
    [w EXCEPT ![Cell(yd, xd, t[1], t[2])] = TerminalReward]

\* for r in neg_reward: world[r[1], r[0]] = r[2]
RECURSIVE PutNegRewards(_, _, _, _)
PutNegRewards(w, yd, xd, neg) ==
    IF neg = <<>> THEN w
    ELSE LET r == Head(neg)
         IN  PutNegRewards([w EXCEPT ![Cell(yd, xd, r[2], r[1])] = r[3]],
                           yd, xd, Tail(neg))

\* for b in barrier: world[b[1], b[0]] = np.NaN
RECURSIVE PutBarriers(_, _, _, _)
PutBarriers(w, yd, xd, bar) ==
    IF bar = <<>> THEN w
    ELSE LET b == Head(bar)
         IN  PutBarriers([w EXCEPT ![Cell(yd, xd, b[2], b[1])] = NaN],
                         yd, xd, Tail(bar))

\* the barriers put before the negative rewards
BuildWorldBarriersFirst(a) ==
    LET yd == a.y_dim
        xd == a.x_dim
        t  == <<a.terminal[2], a.terminal[1]>>
    IN  PutNegRewards(
            PutBarriers(PutTerminal(Zeros(yd, xd), yd, xd, t),
                        yd, xd, a.barrier),
            yd, xd, a.neg_reward)

\* the three assignments in the order of the code
BuildWorld(a) ==
    LET yd == a.y_dim
        xd == a.x_dim
        t  == <<a.terminal[2], a.terminal[1]>>
    IN  PutBarriers(
            PutNegRewards(PutTerminal(Zeros(yd, xd), yd, xd, t),
                          yd, xd, a.neg_reward),
            yd, xd, a.barrier)

\* __init__ raises IndexError at the first assignment whose index is out of
\* range; start is never used as an index
InitRaises(a) ==
    \/ ~CellOK(a.y_dim, a.x_dim, a.terminal[2], a.terminal[1])
    \/ \E i \in 1 .. Len(a.neg_reward) :
          ~CellOK(a.y_dim, a.x_dim, a.neg_reward[i][2], a.neg_reward[i][1])
    \/ \E i \in 1 .. Len(a.barrier) :
          ~CellOK(a.y_dim, a.x_dim, a.barrier[i][2], a.barrier[i][1])

\* the fields of the object __init__ returns for the arguments a
NewObject(a) ==
    [x_dim         |-> a.x_dim,
     y_dim         |-> a.y_dim,
     epsilon       |-> a.epsilon,
     agent         |-> <<a.start[2], a.start[1]>>,
     initial_agent |-> <<a.start[2], a.start[1]>>,
     terminal      |-> <<a.terminal[2], a.terminal[1]>>,
     action        |-> ActionNames,
     world         |-> BuildWorld(a)]

\* no object: the fields of a construction that raised
NoObject ==
    [x_dim |-> None, y_dim |-> None, epsilon |-> None, agent |-> None,
     initial_agent |-> None, terminal |-> None, action |-> None,
     world |-> None]

\* a call record: op is the method, arg its argument, take_action and act
\* the draw and the action step executed, from the agent before the call,
\* same_list whether step or reset found self.agent to be the list of
\* self.initial_agent, ret the value returned, exc the exception
\* raised
Call(op, arg, take, act, from, same, ret, exc) ==
    [op |-> op, arg |-> arg, take_action |-> take, act |-> act,
     from |-> from, same_list |-> same, ret |-> ret, exc |-> exc]

(***************************************************************************)
(* The queries.                                                            *)
(***************************************************************************)
\* isValid without the check of the cell: a barrier passes
isValidIgnoringBarriers(x, y) ==
    x >= 0 /\ x < x_dim /\ y >= 0 /\ y < y_dim

\* isValid with x > 0 for x >= 0: column 0 is taken to be off the grid
isValidWithoutColumnZero(x, y) ==
    /\ x > 0 /\ x < x_dim /\ y >= 0 /\ y < y_dim
    /\ world[<<y, x>>] # NaN

\* isValid(x, y): in the grid, and the cell is not NaN
isValid(x, y) ==
    /\ x >= 0 /\ x < x_dim /\ y >= 0 /\ y < y_dim
    /\ world[<<y, x>>] # NaN

\* inTerminal comparing the agent, [y,x], with the terminal as it was
\* given, [x,y]
InTerminalAtUnswapped(p) == <<p[2], p[1]>> = terminal

\* self.agent == self.terminal for the agent position p
InTerminalAt(p) == p = terminal

inTerminal == InTerminalAt(agent)

(***************************************************************************)
(* step.                                                                   *)
(***************************************************************************)
Less(f, g) == f[1] * g[2] < g[1] * f[2]

\* a draw that always takes the requested action, as if epsilon were 0
TakeActionDrawsRequested(eps) == {TRUE}

\* the draw with both outcomes possible whatever epsilon is
TakeActionDrawsBoth(eps) == BOOLEAN

\* np.random.choice([True, False], p = [1 - epsilon, epsilon]): an outcome
\* of probability 0 is never drawn
TakeActionDraws(eps) ==
    {b \in BOOLEAN : IF b THEN Less(eps, Float(1)) ELSE Less(Float(0), eps)}

\* a draw from 1 .. len(self.action): never 0 (up), and 4, which is no action
RandomActionDrawsFromOne == 1 .. Len(action)

\* np.random.choice(len(self.action))
RandomActionDraws == 0 .. (Len(action) - 1)

\* the chain with the rows counted upwards: 0 adds one to y, 1 takes one off
CandidateRowsUpwards(p, a) ==
    IF a = 0 THEN <<p[1] + 1, p[2]>>
    ELSE IF a = 1 THEN <<p[1] - 1, p[2]>>
    ELSE IF a = 2 THEN <<p[1], p[2] - 1>>
    ELSE IF a = 3 THEN <<p[1], p[2] + 1>>
    ELSE p

\* the if/elif chain: <<y, x>> after the action; any other value of the
\* action matches no branch and leaves y and x as they are
Candidate(p, a) ==
    IF a = 0 THEN <<p[1] - 1, p[2]>>
    ELSE IF a = 1 THEN <<p[1] + 1, p[2]>>
    ELSE IF a = 2 THEN <<p[1], p[2] - 1>>
    ELSE IF a = 3 THEN <<p[1], p[2] + 1>>
    ELSE p

\* self.agent after the validity check, for the executed action a
StepAgent(p, a) ==
    LET c == Candidate(p, a)
    IN  IF isValid(c[2], c[1]) THEN c ELSE p

\* step without its else branch: an invalid move keeps reward = -0.1
StepRewardWithoutPenalty(p, a) ==
    LET c == Candidate(p, a)
    IN  IF isValid(c[2], c[1]) THEN world[c] ELSE DefaultReward

\* step reading the reward before it commits the move: the value of the cell
\* the agent leaves
StepRewardOfOldCell(p, a) ==
    LET c == Candidate(p, a)
    IN  IF isValid(c[2], c[1])
        THEN (IF p \in DOMAIN world THEN world[p] ELSE ZeroReward)
        ELSE InvalidMoveReward

\* the reward after the validity check, for the executed action a
StepReward(p, a) ==
    LET c == Candidate(p, a)
    IN  IF isValid(c[2], c[1]) THEN world[c] ELSE InvalidMoveReward

\* the flag step would return if it asked inTerminal before it moved
StepFlagBeforeMove(p, a) == InTerminalAt(p)

\* the flag step returns: inTerminal() of the position after the move
StepFlag(p, a) == InTerminalAt(StepAgent(p, a))

\* whether step rebinds self.agent to a new list
StepRebinds(p, a) ==
    LET c == Candidate(p, a)
    IN  isValid(c[2], c[1])

\* step assigning into the list (self.agent[0], self.agent[1] = y, x): after
\* a reset that list is the list of self.initial_agent
StepInitialAgentWrittenThrough(p, a) ==
    IF aliased THEN StepAgent(p, a) ELSE initial_agent

\* self.initial_agent after step: step rebinds self.agent to a new list and
\* never writes into the list it held, also when reset made it the list of
\* self.initial_agent
StepInitialAgent(p, a) == initial_agent

Step(a) ==
    /\ constructed
    /\ \E take \in TakeActionDraws(epsilon) :
       \E act \in (IF take THEN {a} ELSE RandomActionDraws) :
          LET new == StepAgent(agent, act)
          IN  /\ agent' = new
              /\ aliased' = IF StepRebinds(agent, act) THEN FALSE ELSE aliased
              /\ last' = Call("step", a, take, act, agent, aliased,
                              <<new, StepReward(agent, act), StepFlag(agent, act)>>,
                              None)
              /\ initial_agent' = StepInitialAgent(agent, act)
    /\ UNCHANGED <<args, constructed, x_dim, y_dim, epsilon, terminal, action,
                   world>>

(***************************************************************************)
(* reset.                                                                  *)
(***************************************************************************)
\* self.agent = self.initial_agent
ResetAgent == initial_agent

\* reset turning the list around in place, [y,x] to [x,y], on every call
ResetInitialAgentReversed == <<initial_agent[2], initial_agent[1]>>

\* self.initial_agent after reset: the assignment binds the list, it does not
\* change it
ResetInitialAgent == initial_agent

\* return self.initial_agent
ResetReturn == initial_agent

Reset ==
    /\ constructed
    /\ agent' = ResetAgent
    /\ aliased' = TRUE
    /\ initial_agent' = ResetInitialAgent
    /\ last' = Call("reset", None, None, None, agent, aliased, ResetReturn, None)
    /\ UNCHANGED <<args, constructed, x_dim, y_dim, epsilon, terminal, action,
                   world>>

(***************************************************************************)
(* The calls of the queries and of the accessors: none assigns a field.    *)
(***************************************************************************)
Query(op, arg, ret) ==
    /\ constructed
    /\ last' = Call(op, arg, None, None, agent, None, ret, None)
    /\ UNCHANGED <<args, constructed, x_dim, y_dim, epsilon, agent,
                   initial_agent, terminal, action, world, aliased>>

\* the coordinates isValid is called with: the grid and one step around it
IsValidCall ==
    \E x \in -1 .. x_dim, y \in -1 .. y_dim :
        Query("isValid", <<x, y>>, isValid(x, y))

InTerminalCall == Query("inTerminal", None, inTerminal)
GetXdim == Query("getXdim", None, x_dim)
GetYdim == Query("getYdim", None, y_dim)
GetActions == Query("getActions", None, action)
GetTerminal == Query("getTerminal", None, terminal)
GetState == Query("getState", None, agent)

(***************************************************************************)
(* The arguments the constructor is called with.                           *)
(***************************************************************************)
Args(xd, yd, eps, start, term, neg, bar) ==
    [x_dim |-> xd, y_dim |-> yd, epsilon |-> eps, start |-> start,
     terminal |-> term, neg_reward |-> neg, barrier |-> bar]

\* the default values of the parameters of __init__
DefaultNegReward == << <<0, 4, Float(-1)>>, <<2, 1, Float(-1)>>, <<4, 4, Float(-1)>> >>
DefaultBarrier == << <<1, 2>>, <<2, 0>>, <<2, 3>> >>
DefaultEpsilon == <<1, 10>>
DefaultArgs ==
    Args(5, 5, DefaultEpsilon, <<0, 0>>, <<4, 0>>, DefaultNegReward, DefaultBarrier)

SeqsUpTo(S, n) == UNION {[1 .. k -> S] : k \in 0 .. n}

Dims == 1 .. MaxDim
\* the cells of a grid, as [x,y] arguments
CellArgs(xd, yd) == (0 .. xd - 1) \X (0 .. yd - 1)
\* four coordinates of a grid: its first cell, its last cell, the negative
\* index of its last cell, and the first column right of the grid
ProbeArgs(xd, yd) == {<<0, 0>>, <<xd - 1, yd - 1>>, <<-1, -1>>, <<xd, 0>>}
NegValues == {Float(-1), Float(-2)}
Epsilons == {Float(0), DefaultEpsilon}

\* Arguments of the environments that are stepped: a small grid with no or
\* one barrier anywhere, a start and a terminal in a corner or off the grid,
\* no or one negative reward in the last cell; or the default 5 x 5 grid, also
\* without noise and with row 0 free of barriers.
SmallStepArgs(a) ==
    \E xd \in Dims, yd \in Dims, eps \in Epsilons :
    \E start \in {<<0, 0>>, <<xd - 1, yd - 1>>, <<xd, 0>>} :
    \E term \in {<<0, 0>>, <<xd - 1, yd - 1>>, <<-1, -1>>} :
    \E neg \in {<<>>, << <<xd - 1, yd - 1, Float(-1)>> >>} :
    \E bar \in SeqsUpTo(CellArgs(xd, yd), 1) :
        a = Args(xd, yd, eps, start, term, neg, bar)

ReferenceStepArgs(a) ==
    \E eps \in Epsilons :
    \E bar \in {DefaultBarrier, << <<1, 2>>, <<2, 3>> >>, <<>>} :
        a = Args(5, 5, eps, <<0, 0>>, <<4, 0>>, DefaultNegReward, bar)

StepArgs(a) == SmallStepArgs(a) \/ ReferenceStepArgs(a)

\* Arguments of the constructions: a small grid with the start, the terminal
\* and the entries of both lists among the four probes.
NewArgs(a) ==
    \E xd \in Dims, yd \in Dims :
    \E start \in {<<0, 0>>, <<xd, 0>>} :
    \E term \in ProbeArgs(xd, yd) :
    \E neg \in SeqsUpTo({<<c[1], c[2], v>> :
                            c \in ProbeArgs(xd, yd), v \in NegValues}, MaxNeg) :
    \E bar \in SeqsUpTo(ProbeArgs(xd, yd), MaxBarrier) :
        a = Args(xd, yd, DefaultEpsilon, start, term, neg, bar)

(***************************************************************************)
(* The specifications.                                                     *)
(***************************************************************************)
\* the fields after __init__(a): those of the new object, or none when it
\* raised
Built(a) == IF InitRaises(a) THEN NoObject ELSE NewObject(a)

Fields(o) ==
    /\ x_dim = o.x_dim
    /\ y_dim = o.y_dim
    /\ epsilon = o.epsilon
    /\ agent = o.agent
    /\ initial_agent = o.initial_agent
    /\ terminal = o.terminal
    /\ action = o.action
    /\ world = o.world

\* an environment right after its construction
Init ==
    /\ StepArgs(args)
    /\ LET a == args IN
        /\ ~InitRaises(a)
        /\ constructed = TRUE
        /\ Fields(NewObject(a))
        /\ aliased = FALSE
        /\ last = Call("__init__", None, None, None, None, None, None, None)

Next ==
    \/ \E a \in 0 .. 4 : Step(a)
    \/ Reset
    \/ IsValidCall
    \/ InTerminalCall
    \/ GetXdim
    \/ GetYdim
    \/ GetActions
    \/ GetTerminal
    \/ GetState

Spec == Init /\ [][Next]_vars

\* the constructor about to be called
InitNew ==
    /\ NewArgs(args)
    /\ constructed = FALSE
    /\ Fields(NoObject)
    /\ aliased = FALSE
    /\ last = Call(None, None, None, None, None, None, None, None)

\* __init__(args)
New ==
    /\ last.op = None
    /\ constructed' = ~InitRaises(args)
    /\ x_dim' = Built(args).x_dim
    /\ y_dim' = Built(args).y_dim
    /\ epsilon' = Built(args).epsilon
    /\ agent' = Built(args).agent
    /\ initial_agent' = Built(args).initial_agent
    /\ terminal' = Built(args).terminal
    /\ action' = Built(args).action
    /\ world' = Built(args).world
    /\ last' = Call("__init__", None, None, None, None, None, None,
                    IF InitRaises(args) THEN "IndexError" ELSE None)
    /\ UNCHANGED <<args, aliased>>

NextNew == New

SpecNew == InitNew /\ [][NextNew]_vars

(***************************************************************************)
(* An episode in the default environment: Gridworld() is stepped and       *)
(* reset for ever, and the draws of step are fair.                         *)
(***************************************************************************)
\* the grid and the terminal of Gridworld()
DefaultWorld == BuildWorld(DefaultArgs)
DefaultTerminal == NewObject(DefaultArgs).terminal

\* the cells from which at most k moves that step commits (the candidate is
\* a cell of the grid and no barrier) lead to the terminal
RECURSIVE Within(_)
Within(k) ==
    IF k = 0
    THEN {p \in DOMAIN DefaultWorld :
            p = DefaultTerminal /\ DefaultWorld[p] # NaN}
    ELSE LET W == Within(k - 1)
         IN  W \cup {p \in DOMAIN DefaultWorld :
                       /\ DefaultWorld[p] # NaN
                       /\ \E m \in 0 .. 3 : Candidate(p, m) \in W}

Far == Cardinality(DOMAIN DefaultWorld)

\* the least number of committed moves from the cell p to the terminal
Level(p) ==
    CHOOSE k \in 0 .. Far :
        p \in Within(k) /\ \A j \in 0 .. k - 1 : p \notin Within(j)

\* the cells the terminal can be reached from, each with its Level
Distances == {<<p, Level(p)>> : p \in Within(Far)}

Farthest ==
    CHOOSE k \in 0 .. Far :
        /\ \E d \in Distances : d[2] = k
        /\ \A d \in Distances : d[2] <= k

\* a step whose action was drawn at random (take_action False, line 141)
\* and took the agent from a cell at k moves from the terminal to one at
\* k - 1
Approach(k) ==
    /\ <<agent, k>> \in Distances
    /\ \E a \in 0 .. 4 : Step(a)
    /\ last'.take_action = FALSE
    /\ <<agent', k - 1>> \in Distances

\* The draws of np.random.choice are independent: in a cell the agent is in
\* again and again, every draw of positive probability comes again and
\* again, so a draw that brings the agent one move nearer to the terminal is
\* made again and again from every distance the agent is at again and again.
FairDraws == \A k \in 1 .. Farthest : SF_vars(Approach(k))

InitEpisode ==
    /\ args = DefaultArgs
    /\ Init

NextEpisode ==
    \/ \E a \in 0 .. 4 : Step(a)
    \/ Reset

SpecEpisode == InitEpisode /\ [][NextEpisode]_vars /\ FairDraws

(***************************************************************************)
(* The vocabulary of the properties, in the terms of the specification: a  *)
(* position is <<row, column>>.                                            *)
(***************************************************************************)
InBounds(p) == 0 <= p[1] /\ p[1] < y_dim /\ 0 <= p[2] /\ p[2] < x_dim
IsBarrier(p) == InBounds(p) /\ world[p] = NaN
Legal(p) == InBounds(p) /\ world[p] # NaN

\* up and down change the row by -1 and +1, left and right the column
Moves == {0, 1, 2, 3}
Target(p, m) ==
    CASE m = 0 -> <<p[1] - 1, p[2]>>
      [] m = 1 -> <<p[1] + 1, p[2]>>
      [] m = 2 -> <<p[1], p[2] - 1>>
      [] m = 3 -> <<p[1], p[2] + 1>>

\* the start and the terminal the constructor was given, as <<row, column>>
StartPosition == <<args.start[2], args.start[1]>>
TerminalPosition == <<args.terminal[2], args.terminal[1]>>

Penalty == <<-1, 2>>
Ten == <<10, 1>>
Nought == <<0, 1>>

Stepped == constructed /\ last.op = "step"
\* step executed one of the four moves
Moved == Stepped /\ last.act \in Moves

(***************************************************************************)
(* C1. With a start that is in bounds and not a barrier, the agent is in   *)
(* bounds and not on a barrier after any calls of step and reset.          *)
(***************************************************************************)
C1_AgentAlwaysLegal ==
    (constructed /\ Legal(StartPosition)) => Legal(agent)

\* a step that tried to leave the grid, after a reset, in an environment
\* with a legal start
C1_Witness ==
    /\ Moved
    /\ Legal(StartPosition)
    /\ ~InBounds(Target(last.from, last.act))
    /\ aliased

(***************************************************************************)
(* C2. When the executed action leads off the grid or onto a barrier, the  *)
(* agent stays where it was and the reward returned is -0.5.               *)
(***************************************************************************)
C2_InvalidMoveRejected ==
    (Moved /\ ~Legal(Target(last.from, last.act))) =>
        /\ agent = last.from
        /\ last.ret[1] = last.from
        /\ last.ret[2] = Penalty

\* a step onto a barrier
C2_Witness ==
    /\ Moved
    /\ IsBarrier(Target(last.from, last.act))
    /\ last.ret[2] = Penalty

(***************************************************************************)
(* C3. When the candidate cell is in bounds and not a barrier, step makes  *)
(* it the agent position and returns the value the grid holds there: 10,   *)
(* a configured negative value, or 0.                                      *)
(***************************************************************************)
ConfiguredNegatives == {args.neg_reward[i][3] : i \in 1 .. Len(args.neg_reward)}

C3_ValidMoveCommitted ==
    (Moved /\ Legal(Target(last.from, last.act))) =>
        /\ agent = Target(last.from, last.act)
        /\ last.ret[1] = agent
        /\ last.ret[2] = world[agent]
        /\ last.ret[2] \in {Ten, Nought} \cup ConfiguredNegatives

\* a step onto a cell with a negative reward, from a cell with another value
C3_Witness ==
    /\ Moved
    /\ Legal(Target(last.from, last.act))
    /\ last.ret[2] \in ConfiguredNegatives
    /\ InBounds(last.from) /\ world[last.from] # last.ret[2]

(***************************************************************************)
(* C4. For every configuration the constructor accepts, a step that moves  *)
(* the agent onto the terminal coordinate returns the reward 10 and the    *)
(* terminal flag true, and inTerminal() is true right after it.            *)
(* The code refutes it: a neg_reward entry on the terminal cell replaces   *)
(* the 10, and the step onto the terminal returns the negative value.      *)
(* It is stated for the environments whose start is a legal cell, where    *)
(* it fails already.                                                       *)
(***************************************************************************)
OntoTerminal == Moved /\ agent # last.from /\ agent = TerminalPosition

C4_TerminalStepPaysTen ==
    (OntoTerminal /\ Legal(StartPosition)) =>
        /\ last.ret[2] = Ten
        /\ last.ret[3] = TRUE
        /\ inTerminal

(***************************************************************************)
(* C5. With epsilon = 0, step(a) for a in 0..3 executes a itself, and its  *)
(* new position, reward and terminal flag are a function of the state and  *)
(* of a.                                                                   *)
(***************************************************************************)
C5_NoNoiseIsDeterministic ==
    (Stepped /\ epsilon = Nought /\ last.arg \in Moves) =>
        LET t   == Target(last.from, last.arg)
            pos == IF Legal(t) THEN t ELSE last.from
        IN  /\ last.act = last.arg
            /\ agent = pos
            /\ last.ret = <<pos,
                            IF Legal(t) THEN world[t] ELSE Penalty,
                            pos = terminal>>

\* a step without noise that moved the agent
C5_Witness ==
    /\ Stepped
    /\ epsilon = Nought
    /\ last.arg \in Moves
    /\ agent = Target(last.from, last.arg)

(***************************************************************************)
(* C6. isValid(x, y) is true for every coordinate in bounds whose cell is  *)
(* not a barrier, false for every barrier coordinate and false for every   *)
(* coordinate out of bounds, on square and non-square grids.               *)
(***************************************************************************)
BarrierList == {args.barrier[i] : i \in 1 .. Len(args.barrier)}

C6_IsValidIsLegality ==
    (constructed /\ last.op = "isValid") =>
        LET x == last.arg[1]
            y == last.arg[2]
            inside == 0 <= x /\ x < x_dim /\ 0 <= y /\ y < y_dim
        IN  /\ (inside /\ world[<<y, x>>] # NaN) => last.ret = TRUE
            /\ (inside /\ world[<<y, x>>] = NaN) => last.ret = FALSE
            /\ <<x, y>> \in BarrierList => last.ret = FALSE
            /\ ~inside => last.ret = FALSE

\* isValid called with a barrier coordinate of a non-square grid
C6_Witness ==
    /\ constructed
    /\ last.op = "isValid"
    /\ x_dim # y_dim
    /\ last.arg \in BarrierList
    /\ last.ret = FALSE

(***************************************************************************)
(* C7. reset() returns the start given at construction and leaves the      *)
(* agent there, and inTerminal() is then true iff the start is the         *)
(* terminal; also after the agent reached the terminal.                    *)
(***************************************************************************)
C7_ResetRestoresStart ==
    (constructed /\ last.op = "reset") =>
        /\ last.ret = StartPosition
        /\ agent = StartPosition
        /\ inTerminal <=> (StartPosition = TerminalPosition)

\* a reset of an agent that stood on the terminal, away from the start
C7_Witness ==
    /\ constructed
    /\ last.op = "reset"
    /\ last.from = TerminalPosition
    /\ last.from # StartPosition

(***************************************************************************)
(* C8. reset is idempotent: a reset that follows a reset changes no field  *)
(* of the environment and returns what the first returned.                 *)
(***************************************************************************)
C8_ResetIdempotent ==
    [][(last.op = "reset" /\ last'.op = "reset") =>
          /\ agent' = agent
          /\ initial_agent' = initial_agent
          /\ aliased' = aliased
          /\ last'.ret = last.ret
          /\ <<x_dim, y_dim, epsilon, terminal, action, world>>' =
             <<x_dim, y_dim, epsilon, terminal, action, world>>]_vars

\* a reset that found self.agent to be the list an earlier reset had bound,
\* unmoved
C8_Witness ==
    /\ constructed
    /\ last.op = "reset"
    /\ last.same_list = TRUE
    /\ last.from = agent

(***************************************************************************)
(* C9. The 5 x 5 grid with start (0,0), terminal (row 0, column 4),        *)
(* epsilon = 0, no barrier on row 0 and the other parameters at their      *)
(* defaults.                                                               *)
(*   Four steps right from the start: the step right from (0,c) returns a  *)
(*   reward other than 10 and the flag false for c = 0, 1, 2 and lands on  *)
(*   (0,c+1); the step right from (0,3), the fourth, returns 10 and true.  *)
(*   As claimed: once on the terminal, the position and the flag stay      *)
(*   under every further step.  The code refutes that: step has no check   *)
(*   of the terminal, and a step left from (0,4) moves the agent to (0,3). *)
(*   As amended: they stay under further steps right, which return -0.5;   *)
(*   a step whose target is a legal cell moves the agent there and         *)
(*   returns the flag false.                                               *)
(***************************************************************************)
C9_Scenario ==
    /\ constructed
    /\ x_dim = 5 /\ y_dim = 5
    /\ epsilon = Nought
    /\ StartPosition = <<0, 0>>
    /\ TerminalPosition = <<0, 4>>
    /\ \A b \in BarrierList : b[2] # 0
    /\ args.neg_reward = DefaultNegReward

C9_FourRights ==
    (C9_Scenario /\ Stepped /\ last.arg = 3 /\ last.from[1] = 0) =>
        /\ last.from[2] \in {0, 1, 2} =>
              /\ agent = <<0, last.from[2] + 1>>
              /\ last.ret[2] # Ten
              /\ last.ret[3] = FALSE
        /\ last.from[2] = 3 =>
              /\ agent = <<0, 4>>
              /\ last.ret = <<agent, Ten, TRUE>>
              /\ inTerminal

C9_OnTerminalStep ==
    C9_Scenario /\ agent = <<0, 4>> /\ last'.op = "step"

C9_StaysUnderEveryStep ==
    C9_OnTerminalStep => (agent' = agent /\ last'.ret[3] = TRUE)

C9_StaysUnderRight ==
    (C9_OnTerminalStep /\ last'.arg = 3) =>
        (agent' = agent /\ last'.ret = <<agent, Penalty, TRUE>>)

C9_LeavesOnLegalMove ==
    (C9_OnTerminalStep /\ last'.arg \in Moves
        /\ Legal(Target(agent, last'.arg))) =>
        (agent' = Target(agent, last'.arg) /\ last'.ret[3] = FALSE)

Addressed(c) == <<c[2] % y_dim, c[1] % x_dim>>

BarrierEntries(p) ==
    {i \in 1 .. Len(args.barrier) : Addressed(args.barrier[i]) = p}
NegEntries(p) ==
    {i \in 1 .. Len(args.neg_reward) : Addressed(args.neg_reward[i]) = p}
LastOf(S) == CHOOSE i \in S : \A j \in S : j <= i

C10_Layering ==
    constructed =>
        \A p \in (0 .. y_dim - 1) \X (0 .. x_dim - 1) :
            world[p] =
                IF BarrierEntries(p) # {} THEN NaN
                ELSE IF NegEntries(p) # {}
                     THEN args.neg_reward[LastOf(NegEntries(p))][3]
                ELSE IF Addressed(args.terminal) = p THEN Ten
                ELSE Nought

\* a grid with a barrier cell, a terminal cell that two negative rewards of
\* different values overwrote, and a plain cell
C10_Witness ==
    /\ constructed
    /\ last.op = "__init__"
    /\ \E p \in DOMAIN world : BarrierEntries(p) # {}
    /\ \E p \in DOMAIN world :
          /\ BarrierEntries(p) = {}
          /\ Addressed(args.terminal) = p
          /\ \E i, j \in NegEntries(p) :
                i < j /\ args.neg_reward[i][3] # args.neg_reward[j][3]
    /\ \E p \in DOMAIN world : world[p] = Nought

(***************************************************************************)
(* C11. No call after the construction changes the grid, the dimensions,   *)
(* epsilon, the stored start or the terminal; only step and reset change   *)
(* the agent; isValid, inTerminal and the accessors change no field at     *)
(* all. In particular the stored start is the start given at construction  *)
(* after a step that follows a reset.                                      *)
(***************************************************************************)
Configuration == <<x_dim, y_dim, epsilon, initial_agent, terminal, world>>
Readers ==
    {"isValid", "inTerminal", "getXdim", "getYdim", "getActions",
     "getTerminal", "getState"}

C11_Frame ==
    [][constructed =>
          /\ constructed'
          /\ Configuration' = Configuration
          /\ initial_agent' = StartPosition
          /\ (agent' # agent => last'.op \in {"step", "reset"})
          /\ (last'.op \in Readers =>
                <<agent, action, aliased>>' = <<agent, action, aliased>>)]_vars

\* a step that moved the agent away from the start while self.agent was the
\* list reset had bound, the list of self.initial_agent
C11_Witness ==
    /\ Stepped
    /\ last.same_list = TRUE
    /\ last.from = StartPosition
    /\ agent # last.from
    /\ initial_agent = StartPosition

(***************************************************************************)
(* C12. A step called with an action outside the four actions raises an    *)
(* error and leaves the agent where it was, whatever epsilon is.           *)
(* The code refutes it: such an action matches no branch of step, which    *)
(* raises nothing and returns a position, a reward and a flag; with        *)
(* epsilon > 0 the action may even be replaced by one of the four moves    *)
(* and the agent moves. It is stated for the environments whose start and  *)
(* terminal are legal cells, where it fails already.                       *)
(***************************************************************************)
C12_InvalidActionRaises ==
    (/\ Stepped
     /\ last.arg \notin Moves
     /\ Legal(StartPosition)
     /\ Legal(TerminalPosition)) =>
        /\ last.exc # None
        /\ agent = last.from

(***************************************************************************)
(* C13. A construction given a start, a terminal, a barrier or a negative  *)
(* reward whose coordinate is outside the grid (a component negative or    *)
(* not below the dimension) raises an error and produces no environment.   *)
(* The code refutes it: the start is never used as an index and never      *)
(* checked, and a negative component of the other coordinates is an index  *)
(* from the end of the axis, so the construction succeeds and writes the   *)
(* cell at the other end; only a component that is not below the           *)
(* dimension raises (IndexError).                                          *)
(***************************************************************************)
OutOfGrid(c) ==
    ~(0 <= c[1] /\ c[1] < args.x_dim /\ 0 <= c[2] /\ c[2] < args.y_dim)

GivenCoordinates ==
    {args.start, args.terminal}
        \cup {args.barrier[i] : i \in 1 .. Len(args.barrier)}
        \cup {<<args.neg_reward[i][1], args.neg_reward[i][2]>> :
                i \in 1 .. Len(args.neg_reward)}

C13_OutOfBoundsRejected ==
    (last.op = "__init__" /\ \E c \in GivenCoordinates : OutOfGrid(c)) =>
        /\ ~constructed
        /\ last.exc # None

(***************************************************************************)
(* C14. In every environment the constructor produces, the stored start    *)
(* and the terminal are in bounds and not barrier cells, in every state.   *)
(* The code refutes it: the constructor accepts a barrier on the start or  *)
(* on the terminal (the barrier then replaces the 10), and coordinates off *)
(* the grid (C13). It is stated for the constructions whose coordinates    *)
(* are all inside the grid, where it fails already.                        *)
(***************************************************************************)
C14_StartAndTerminalLegal ==
    (constructed /\ \A c \in GivenCoordinates : ~OutOfGrid(c)) =>
        /\ Legal(initial_agent)
        /\ Legal(terminal)

(***************************************************************************)
(* C15. What step returns agrees with the state it leaves: the position    *)
(* returned is the agent position after the call, which getState() then    *)
(* returns, and the flag returned is inTerminal() of that position, true   *)
(* exactly when the agent is on the terminal.                              *)
(***************************************************************************)
C15_ReturnIsPostState ==
    [][/\ Stepped' =>
            /\ last'.ret[1] = agent'
            /\ last'.ret[3] = (agent' = terminal')
            /\ last'.ret[3] = inTerminal'
       /\ (Stepped /\ last'.op = "getState") => last'.ret = last.ret[1]
       /\ (Stepped /\ last'.op = "inTerminal") => last'.ret = last.ret[3]]_vars

\* a step that moved the agent onto the terminal and returned the flag true
C15_Witness ==
    /\ Stepped
    /\ agent # last.from
    /\ agent = terminal
    /\ last.ret[1] = agent
    /\ last.ret[3] = TRUE

(***************************************************************************)
(* C16. With 0 < epsilon < 1 the action step executes is the requested one *)
(* or a replacement drawn from all four actions, the requested one         *)
(* included: the outcomes step(a) can have in a state are exactly the      *)
(* outcomes step(0), step(1), step(2), step(3) have there without noise,   *)
(* each of them possible and no other. That each is possible is checked in *)
(* the states the construction, a step or a reset left: a query or an      *)
(* accessor changes no field (C11), so these are all the states of the     *)
(* environment.                                                            *)
(***************************************************************************)
Noisy == Less(Float(0), epsilon) /\ Less(epsilon, Float(1))

\* what step returns, and leaves the agent at, when it executes the move m
\* from the position p
Outcome(p, m) ==
    LET target == Target(p, m) IN
    IF Legal(target)
    THEN <<target, world[target], target = terminal>>
    ELSE <<p, Penalty, p = terminal>>

MinusTenth == <<-1, 10>>

C17_DefaultRewardNeverReturned ==
    (Moved /\ MinusTenth \notin ConfiguredNegatives) =>
        /\ last.ret[2] # MinusTenth
        /\ \/ last.ret[2] = Penalty
           \/ Legal(agent) /\ last.ret[2] = world[agent]

\* a step that moved the agent onto a cell with neither the 10 nor a
\* negative reward, and returned 0
C17_Witness ==
    /\ Moved
    /\ agent # last.from
    /\ last.ret[2] = Nought

(***************************************************************************)
(* C18. Each of the four symbols getActions() exposes (up, down, left,     *)
(* right) is accepted by step, requested as step's docstring encodes it,   *)
(* by its index in that list; without noise and with a legal target it     *)
(* moves the agent by the delta of the symbol: up one row less, down one   *)
(* row more, left one column less, right one column more, the other        *)
(* coordinate unchanged.                                                   *)
(***************************************************************************)
Delta(symbol) ==
    CASE symbol = "up" -> <<-1, 0>>
      [] symbol = "down" -> <<1, 0>>
      [] symbol = "left" -> <<0, -1>>
      [] symbol = "right" -> <<0, 1>>

Shifted(p, d) == <<p[1] + d[1], p[2] + d[2]>>

AtTerminal == constructed /\ inTerminal

CanReachTerminal == {d[1] : d \in Distances}

C19_TerminalReached ==
    /\ [](agent \in CanReachTerminal)
    /\ []<>AtTerminal
    /\ (last.op = "reset") ~> AtTerminal

\* a step, after a reset, whose action was drawn at random and moved the
\* agent onto the terminal of the default environment
C19_Witness ==
    /\ args = DefaultArgs
    /\ Stepped
    /\ last.take_action = FALSE
    /\ agent # last.from
    /\ AtTerminal
    /\ last.ret[3] = TRUE

==============================================================================
